---- MODULE Spec2Model ----
(***************************************************************************)
(* Backfill jobs of the exex crate (crates/exex/exex/src/backfill/job.rs). *)
(*                                                                         *)
(* A BackfillJob executes the blocks of an inclusive range in batches and  *)
(* yields one chain segment per batch; a SingleBlockBackfillJob yields one *)
(* (block, output) pair per block number.  Block numbers are u64 in the    *)
(* code; here the u64 domain is scaled down to 0..U64_MAX so that the top  *)
(* of the domain is reachable by the model checker.                        *)
(***************************************************************************)
EXTENDS Integers, Sequences, FiniteSets, TLC

VARIABLES
    job,              \* JobIds -> the job object (its fields and the observed history)
    fault,            \* the one defect of the provider / block source, if any
    overflow_checks,  \* the build: TRUE, integer overflow panics; FALSE, it wraps
    stream,           \* the StreamBackfillJob made by into_stream, if any
    service,          \* the EngineService with its chain orchestrator
    auth,             \* the AuthRpcModule with the history of its last operation
    server            \* the auth server: its builder, its config, what start returned

vars == <<job, fault, overflow_checks, stream, service, auth, server>>

(***************************** bounds **************************************)
\* The largest block number (the scaled u64::MAX).
U64_MAX == 3
\* The number of items a job's history records.
MaxItems == 5
\* The number of error items among them.
MaxErrs == 2
\* The executor state is a residue modulo StateMod.
StateMod == 5
\* The largest max_blocks threshold tried.
MaxBlocksLimit == 2
\* The largest stream parallelism tried.
MaxParallelism == 2
\* The number of events the service's stream records.
MaxEvents == 5
\* The highest block the chain's head reaches.
MaxHead == 3
\* The callbacks a method name can be bound to.
MaxHandlers == 2
\* The longest list of names handed to remove_auth_methods.
MaxRemovals == 2
MaxIpcConfigs == 2

BlockNumbers == 0..U64_MAX
JobIds == {1, 2}

(***************************** Option<T> ***********************************)
None == <<>>
Some(v) == <<v>>
is_some(o) == Len(o) = 1
unwrap(o) == o[1]

(************************ RangeInclusive<u64> ******************************)
\* core::ops::RangeInclusive carries an `exhausted` flag next to start/end.
RangeInclusive(s, e) == [start |-> s, end |-> e, exhausted |-> FALSE]

is_empty(r) == r.exhausted \/ ~(r.start <= r.end)

\* The blocks a range still holds.
RangeBlocks(r) == IF is_empty(r) THEN {} ELSE r.start..r.end

\* RangeInclusive::next: the yielded number (None when empty) and the range after.
range_next(r) ==
    IF is_empty(r) THEN [item |-> None, range |-> r]
    ELSE IF r.start < r.end
         THEN [item |-> Some(r.start), range |-> [r EXCEPT !.start = r.start + 1]]
         ELSE [item |-> Some(r.start), range |-> [r EXCEPT !.exhausted = TRUE]]

\* Mutant: nothing is subtracted, the snapshot is as of the block itself.
sub_skipped(a, b) == a

\* Mutant: the subtraction wraps below zero.
wrapping_sub(a, b) == (a - b) % (U64_MAX + 1)

\* u64::saturating_sub.
saturating_sub(a, b) == IF a >= b THEN a - b ELSE 0

(********************* external collaborators ******************************)
\* Block 0 is the genesis block: no transactions, no gas, no state change.
\* Gas used by block n (header field). Gas, sizes and durations are not scaled
\* with the block numbers: their sums stay far below u64::MAX.
gas_used(n) == IF n = 0 THEN 0 ELSE (n % 2) + 1

\* State changes block n adds to the executor's bundle (drives size_hint).
changes(n) == IF n = 0 THEN 0 ELSE IF n % 3 = 0 THEN 2 ELSE 1

\* Executor::execute_one on the executor state st: the per-block result
\* (it depends on the state the block ran against) and the state after.
execute_one(st, n) ==
    [receipt |-> <<n, (st + gas_used(n)) % StateMod>>,
     post    |-> IF n = 0 THEN st ELSE (2 * st + n + gas_used(n)) % StateMod]

\* StateProviderFactory::history_by_block_number(n): the canonical state as of
\* block n, every ancestor's effect included.
RECURSIVE history_by_block_number(_)
history_by_block_number(n) ==
    IF n = 0 THEN 0   \* the genesis state
    ELSE execute_one(history_by_block_number(n - 1), n).post

\* ExecutionStageThresholds::is_end_of_batch: a limit that is set trips once
\* the measured value reaches it.
Trips(limit, v) == is_some(limit) /\ v >= unwrap(limit)

is_end_of_batch(t, blocks_processed, changes_processed, cumulative_gas_used, elapsed) ==
    \/ Trips(t.max_blocks, blocks_processed)
    \/ Trips(t.max_changes, changes_processed)
    \/ Trips(t.max_cumulative_gas, cumulative_gas_used)
    \/ Trips(t.max_duration, elapsed)

\* Instant::elapsed since batch_start after block n: the wall clock is not
\* under the program's control; slow is the first block (if any) by whose end
\* one time unit has passed.
elapsed(slow, n) == IF is_some(slow) /\ n >= unwrap(slow) THEN 1 ELSE 0

(***************************** faults **************************************)
NoFault == [kind |-> "none", block |-> 0]
Faults == {NoFault} \cup
    [kind : {"snapshot", "provider", "missing", "execution"}, block : BlockNumbers]

snapshot_fails(f, n) == f.kind = "snapshot" /\ f.block = n
fetch_fails(f, n)    == f.kind = "provider" /\ f.block = n
block_absent(f, n)   == f.kind = "missing" /\ f.block = n
execution_fails(f, n) == f.kind = "execution" /\ f.block = n

(***************************** items ***************************************)
\* Mutant: the outcome is anchored at the last block of the segment.
OkChain_anchored_last(blocks, first, bundle, results) ==
    [tag |-> "Ok", blocks |-> blocks, first |-> blocks[Len(blocks)], results |-> results,
     bundle |-> bundle, cause |-> "", at |-> 0]

\* Ok(Chain::new(blocks, ExecutionOutcome::from_blocks(first, bundle, results), None))
OkChain(blocks, first, bundle, results) ==
    [tag |-> "Ok", blocks |-> blocks, first |-> first, results |-> results,
     bundle |-> bundle, cause |-> "", at |-> 0]

\* Ok((block, output)) of the single-block job.
OkBlock(n, bundle, receipt) == OkChain(<<n>>, n, bundle, <<receipt>>)

\* Err(BlockExecutionError): cause is the error's class, at the block (or the
\* snapshot number) the failing call was about. The error type
\* (BackfillJobResult, job.rs:23) has no place for blocks, results or figures
\* of the batch: blocks, results and stats are empty in every error item.
ErrItem(cause, at) ==
    [tag |-> "Err", blocks |-> <<>>, first |-> 0, results |-> <<>>,
     bundle |-> [pre |-> 0, post |-> 0], cause |-> cause, at |-> at, stats |-> None]

(********************* BackfillJob::execute_range **************************)
\* The value of a call: what it returned (ret: "Ok", "Err", "None" or "panic"),
\* the item yielded, the job's range after it, and the provider / executor
\* calls it made, in order.
Outcome(ret, item, range, log) == [ret |-> ret, item |-> item, range |-> range, log |-> log]

\* Mutant: the block count lives in a static that all jobs of the process
\* share and that is never reset: the blocks job 1 committed count too.
blocks_processed_static(n, start) ==
    n - start + 1 + (job[1].range.start - job[1].range0.start)

\* Mutant: the block count is taken from the first block of the chain and
\* not from the first block of the batch.
blocks_processed_from_genesis(n, start) == n + 1

\* blocks_processed = block_number - *self.range.start() + 1 (job.rs:127).
blocks_processed(n, start) == n - start + 1

\* How the batch loop ended: "done", "err" or "panic", with the accumulators.
LoopEnd(end, cause, at, acc) == [end |-> end, cause |-> cause, at |-> at, acc |-> acc]

\* Mutant: the thresholds are tested before the block is fetched and executed.
RECURSIVE batch_loop_precheck(_, _, _, _, _, _, _)
batch_loop_precheck(n, acc, r, t, f, slow, oc) ==
    LET log1 == Append(acc.log, <<"fetch", n>>)
        log2 == Append(log1, <<"execute", n>>)
    IN
    IF n \notin RangeBlocks(r) THEN LoopEnd("done", "", n, acc)
    ELSE IF is_end_of_batch(t, n - r.start, acc.size, acc.cumulative_gas, elapsed(slow, n))
    THEN LoopEnd("done", "", n, acc)
    ELSE IF fetch_fails(f, n) THEN LoopEnd("err", "ProviderError", n, [acc EXCEPT !.log = log1])
    ELSE IF block_absent(f, n) THEN LoopEnd("err", "HeaderNotFound", n, [acc EXCEPT !.log = log1])
    ELSE IF execution_fails(f, n) THEN LoopEnd("err", "ExecutionError", n, [acc EXCEPT !.log = log2])
    ELSE
      LET out  == execute_one(acc.state, n)
          acc2 == [blocks |-> Append(acc.blocks, n),
                   results |-> Append(acc.results, out.receipt),
                   state |-> out.post,
                   size |-> acc.size + changes(n),
                   cumulative_gas |-> acc.cumulative_gas + gas_used(n),
                   log |-> log2]
      IN IF n = r.end THEN LoopEnd("done", "", n, acc2)
         ELSE batch_loop_precheck(n + 1, acc2, r, t, f, slow, oc)

\* Mutant: a block number for which the block source has no block is skipped
\* and the loop goes on with the next number.
RECURSIVE batch_loop_skipping(_, _, _, _, _, _, _)
batch_loop_skipping(n, acc, r, t, f, slow, oc) ==
    LET log1 == Append(acc.log, <<"fetch", n>>)
        log2 == Append(log1, <<"execute", n>>)
    IN
    IF n \notin RangeBlocks(r) THEN LoopEnd("done", "", n, acc)
    ELSE IF fetch_fails(f, n) THEN LoopEnd("err", "ProviderError", n, [acc EXCEPT !.log = log1])
    ELSE IF block_absent(f, n)
    THEN IF n = r.end THEN LoopEnd("done", "", n, [acc EXCEPT !.log = log1])
         ELSE batch_loop_skipping(n + 1, [acc EXCEPT !.log = log1], r, t, f, slow, oc)
    ELSE IF execution_fails(f, n) THEN LoopEnd("err", "ExecutionError", n, [acc EXCEPT !.log = log2])
    ELSE
      LET out  == execute_one(acc.state, n)
          acc2 == [blocks |-> Append(acc.blocks, n),
                   results |-> Append(acc.results, out.receipt),
                   state |-> out.post,
                   size |-> acc.size + changes(n),
                   cumulative_gas |-> acc.cumulative_gas + gas_used(n),
                   log |-> log2]
          cnt  == blocks_processed(n, r.start)
      IN
      IF cnt > U64_MAX /\ oc
      THEN LoopEnd("panic", "attempt to add with overflow", n, acc2)
      ELSE IF is_end_of_batch(t, cnt % (U64_MAX + 1), acc2.size, acc2.cumulative_gas, elapsed(slow, n))
      THEN LoopEnd("done", "", n, acc2)
      ELSE IF n = r.end
      THEN LoopEnd("done", "", n, acc2)
      ELSE batch_loop_skipping(n + 1, acc2, r, t, f, slow, oc)

\* The `for block_number in self.range.clone()` loop (job.rs:91-134) from block
\* n on. acc holds blocks, results, the executor's state and size,
\* cumulative_gas, and the log of the calls made.
RECURSIVE batch_loop(_, _, _, _, _, _, _)
batch_loop(n, acc, r, t, f, slow, oc) ==
    LET log1 == Append(acc.log, <<"fetch", n>>)
        log2 == Append(log1, <<"execute", n>>)
    IN
    IF n \notin RangeBlocks(r) THEN LoopEnd("done", "", n, acc)
    ELSE IF fetch_fails(f, n) THEN LoopEnd("err", "ProviderError", n, [acc EXCEPT !.log = log1])
    ELSE IF block_absent(f, n) THEN LoopEnd("err", "HeaderNotFound", n, [acc EXCEPT !.log = log1])
    ELSE IF execution_fails(f, n) THEN LoopEnd("err", "ExecutionError", n, [acc EXCEPT !.log = log2])
    ELSE
      LET out  == execute_one(acc.state, n)
          acc2 == [blocks |-> Append(acc.blocks, n),
                   results |-> Append(acc.results, out.receipt),
                   state |-> out.post,
                   size |-> acc.size + changes(n),
                   cumulative_gas |-> acc.cumulative_gas + gas_used(n),
                   log |-> log2]
          cnt  == blocks_processed(n, r.start)
      IN
      IF cnt > U64_MAX /\ oc
      THEN LoopEnd("panic", "attempt to add with overflow", n, acc2)
      ELSE IF is_end_of_batch(t, cnt % (U64_MAX + 1), acc2.size, acc2.cumulative_gas, elapsed(slow, n))
      THEN LoopEnd("done", "", n, acc2)
      ELSE IF n = r.end
      THEN LoopEnd("done", "", n, acc2)
      ELSE batch_loop(n + 1, acc2, r, t, f, slow, oc)

\* The block numbers of the log's calls of the given kind, in call order.
RECURSIVE Calls(_, _)
Calls(log, kind) ==
    IF log = <<>> THEN <<>>
    ELSE (IF Head(log)[1] = kind THEN <<Head(log)[2]>> ELSE <<>>) \o Calls(Tail(log), kind)

\* Mutant: when a block fails after others of the batch executed, the blocks
\* executed so far are yielded as a segment.
early_return_emitting(r, cause, at, log) ==
    LET done == SelectSeq(Calls(log, "execute"), LAMBDA n : n # at)
    IN IF done = <<>> THEN Outcome("Err", ErrItem(cause, at), r, log)
       ELSE Outcome("Ok", OkChain(done, Head(done), [pre |-> 0, post |-> 0], done), r, log)

\* Mutant: the error is wrapped with what the batch had gathered: the blocks
\* fetched and executed so far and their number.
early_return_carrying(r, cause, at, log) ==
    LET done == SelectSeq(Calls(log, "execute"), LAMBDA n : n # at)
    IN Outcome("Err", [ErrItem(cause, at) EXCEPT !.blocks = done,
                                                 !.stats = Some(<<Len(Calls(log, "fetch")), 0>>)],
               r, log)

\* Mutant: the error path commits the part of the batch before the failure.
early_return_partial(r, cause, at, log) ==
    Outcome("Err", ErrItem(cause, at), RangeInclusive(at, r.end), log)

\* Mutant: the loop consumes self.range itself, so the failed block is gone.
early_return_consumed(r, cause, at, log) ==
    Outcome("Err", ErrItem(cause, at),
            IF at < r.end THEN RangeInclusive(at + 1, r.end) ELSE [r EXCEPT !.exhausted = TRUE], log)

\* The `?` of job.rs:81, 99, 101 and 118: execute_range returns the error
\* at once; self.range has not been assigned.
early_return(r, cause, at, log) == Outcome("Err", ErrItem(cause, at), r, log)

\* A panic unwinds out of next(): nothing is returned, the range is as it was.
Panic(r, msg, log) == Outcome("panic", ErrItem(msg, 0), r, log)

\* self.range = last_block_number + 1..=*self.range.end() (job.rs:146).
\* In a build without overflow checks the sum wraps; with them execute_range
\* panics before the assignment.
advance_range(r, last_block_number) ==
    RangeInclusive((last_block_number + 1) % (U64_MAX + 1), r.end)

\* execute_range (job.rs:71-155) on a job whose range is r.
execute_range(r, t, f, slow, oc) ==
    LET parent == saturating_sub(r.start, 1)
        log0   == <<<<"snapshot", parent>>>>
    IN
    IF snapshot_fails(f, parent)
    THEN early_return(r, "ProviderError", parent, log0)
    ELSE
      LET pre  == history_by_block_number(parent)
          loop == batch_loop(r.start,
                             [blocks |-> <<>>, results |-> <<>>, state |-> pre,
                              size |-> 0, cumulative_gas |-> 0, log |-> log0],
                             r, t, f, slow, oc)
          acc  == loop.acc
      IN
      CASE loop.end = "err"   -> early_return(r, loop.cause, loop.at, acc.log)
        [] loop.end = "panic" -> Panic(r, loop.cause, acc.log)
        [] OTHER ->
            IF acc.blocks = <<>>
            THEN Panic(r, "blocks should not be empty", acc.log)
            ELSE
              LET first_block_number == Head(acc.blocks)
                  last_block_number  == acc.blocks[Len(acc.blocks)]
                  chain == OkChain(acc.blocks, first_block_number,
                                   [pre |-> pre, post |-> acc.state], acc.results)
              IN
              IF last_block_number + 1 > U64_MAX /\ oc
              THEN Panic(r, "attempt to add with overflow", acc.log)
              ELSE Outcome("Ok", chain, advance_range(r, last_block_number), acc.log)

\* <BackfillJob as Iterator>::next (job.rs:47-53).
next(r, t, f, slow, oc) ==
    IF is_empty(r) THEN Outcome("None", ErrItem("", 0), r, <<>>)
    ELSE execute_range(r, t, f, slow, oc)

(***************** SingleBlockBackfillJob::execute_block *******************)
\* execute_block(block_number) (job.rs:202-229): fetch the block, then take a
\* fresh snapshot as of its parent, then execute it on a new executor.
execute_block(n, f) ==
    LET parent == saturating_sub(n, 1)
        log1 == <<<<"fetch", n>>>>
        log2 == Append(log1, <<"snapshot", parent>>)
        log3 == Append(log2, <<"execute", n>>)
        pre  == history_by_block_number(parent)
        out  == execute_one(pre, n)
    IN
    IF fetch_fails(f, n) THEN [ret |-> "Err", item |-> ErrItem("ProviderError", n), log |-> log1]
    ELSE IF block_absent(f, n) THEN [ret |-> "Err", item |-> ErrItem("HeaderNotFound", n), log |-> log1]
    ELSE IF snapshot_fails(f, parent) THEN [ret |-> "Err", item |-> ErrItem("ProviderError", parent), log |-> log2]
    ELSE IF execution_fails(f, n) THEN [ret |-> "Err", item |-> ErrItem("ExecutionError", n), log |-> log3]
    ELSE [ret |-> "Ok", item |-> OkBlock(n, [pre |-> pre, post |-> out.post], out.receipt), log |-> log3]

\* Mutant: the first error ends the job.
single_next_stopping(r, f) ==
    LET nx == range_next(r)
    IN IF is_some(nx.item)
       THEN LET o == execute_block(unwrap(nx.item), f)
            IN Outcome(o.ret, o.item,
                       IF o.ret = "Err" THEN [nx.range EXCEPT !.exhausted = TRUE] ELSE nx.range,
                       o.log)
       ELSE Outcome("None", ErrItem("", 0), nx.range, <<>>)

\* Mutant: the block number is taken out of the range only when it executed.
single_next_retrying(r, f) ==
    LET nx == range_next(r)
    IN IF is_some(nx.item)
       THEN LET o == execute_block(unwrap(nx.item), f)
            IN Outcome(o.ret, o.item, IF o.ret = "Err" THEN r ELSE nx.range, o.log)
       ELSE Outcome("None", ErrItem("", 0), nx.range, <<>>)

\* <SingleBlockBackfillJob as Iterator>::next (job.rs:180-182): the block
\* number is taken out of the range, then executed.
single_next(r, f) ==
    LET nx == range_next(r)
    IN IF is_some(nx.item)
       THEN LET o == execute_block(unwrap(nx.item), f)
            IN Outcome(o.ret, o.item, nx.range, o.log)
       ELSE Outcome("None", ErrItem("", 0), nx.range, <<>>)

(***************************** the jobs ************************************)
\* BackfillJobFactory::backfill(range) with the factory's thresholds. The
\* fields of the struct (job.rs:31-38) come first; evm_config, provider and
\* prune_modes are opaque handles.
BackfillJob(r, t) ==
    [kind |-> "multi", range |-> r, thresholds |-> t,
     evm_config |-> "evm_config", provider |-> "provider",
     prune_modes |-> "prune_modes", stream_parallelism |-> 1,
     items |-> <<>>, ret |-> "new", before |-> r, log |-> <<>>, panic |-> "",
     range0 |-> r, converted |-> 0, built_over |-> r]

NoThresholds ==
    [max_blocks |-> None, max_changes |-> None, max_cumulative_gas |-> None, max_duration |-> None]

\* From<BackfillJob> for SingleBlockBackfillJob (job.rs:232-241): the range
\* and the configuration move into the new job, which has no thresholds and
\* no prune modes (job.rs:163-168); the new job has made no call.
\* The history of the original job stays in view, converted marks its length;
\* built_over is the range the new job starts with.
SingleBlockBackfillJob(jb) ==
    [jb EXCEPT !.kind = "single", !.converted = Len(jb.items), !.built_over = jb.range,
               !.thresholds = NoThresholds, !.prune_modes = "",
               !.ret = "new", !.before = jb.range, !.log = <<>>]

\* A job slot that holds no job.
Absent == [BackfillJob(RangeInclusive(1, 0), NoThresholds) EXCEPT !.kind = "absent"]

\* The ranges a job is built over; the empty ones are s..=s-1.
Ranges == {RangeInclusive(s, e) : s \in BlockNumbers, e \in BlockNumbers}

\* The threshold configurations tried: every max_blocks setting, alone or
\* with one of the other three limits.
ThresholdSets ==
    {t \in [max_blocks : {None} \cup {Some(n) : n \in 0..MaxBlocksLimit},
            max_changes : {None, Some(2)},
            max_cumulative_gas : {None, Some(1), Some(3)},
            max_duration : {None, Some(1)}] :
        Cardinality({k \in {"max_changes", "max_cumulative_gas", "max_duration"} : is_some(t[k])}) <= 1}

\* What a call leaves in the job: the returned value, the range before and
\* after, the call's log; a yielded item is appended to the history.
Returned(jb, o) ==
    [jb EXCEPT !.ret = o.ret, !.before = jb.range, !.range = o.range, !.log = o.log,
               !.panic = IF o.ret = "panic" THEN o.item.cause ELSE "",
               !.items = IF o.ret \in {"Ok", "Err"} THEN Append(jb.items, o.item) ELSE jb.items]

Errs(items) == Cardinality({i \in 1..Len(items) : items[i].tag = "Err"})

\* The job is alive and its history has room for what the call returns.
Callable(jb) == jb.ret # "panic" /\ Len(jb.items) < MaxItems
Recordable(jb, ret) == ret = "Err" => Errs(jb.items) < MaxErrs

\* The wall-clock behaviours of one batch that the thresholds can tell apart.
Clocks(r, t) ==
    IF is_some(t.max_duration) THEN {None} \cup {Some(n) : n \in RangeBlocks(r)} ELSE {None}

(************************* StreamBackfillJob *******************************)
\* The streaming form of a job: up to `parallelism` block fetches are in
\* flight at a time and complete in any order; the blocks are executed one at
\* a time, in ascending order, as the synchronous job executes them.
\* pending are the blocks being fetched, ready the blocks whose fetch
\* returned; acc is the batch in progress (None between batches); execs are
\* the blocks handed to the executor so far.
StreamBackfillJob(jb) ==
    [kind |-> IF jb.kind = "multi" THEN "chain" ELSE "single",
     range |-> jb.range, thresholds |-> jb.thresholds,
     evm_config |-> jb.evm_config, provider |-> jb.provider,
     parallelism |-> jb.stream_parallelism,
     pending |-> {}, ready |-> {}, acc |-> None,
     items |-> <<>>, ret |-> "new", execs |-> <<>>, range0 |-> jb.range]

\* No stream was made.
NoStream == [StreamBackfillJob(BackfillJob(RangeInclusive(1, 0), NoThresholds)) EXCEPT !.kind = "none"]

\* The stream can still be polled.
StreamAlive(st) == st.kind \in {"chain", "single"} /\ st.ret \notin {"None", "panic"}

\* The block the executor takes next: the one after the batch in progress, or
\* the first of the remaining range.
next_to_execute(st) ==
    IF st.acc = None THEN st.range.start
    ELSE LET bs == unwrap(st.acc).blocks IN bs[Len(bs)] + 1

\* Mutant: the executor takes whichever fetched block came back first.
take_ready_any(st) == st.ready

\* The executor takes the next block in order, once its fetch has returned.
take_ready(st) == st.ready \cap {next_to_execute(st)}

\* The blocks whose fetch may be started: not yet executed, not yet requested.
to_fetch(st) ==
    {n \in RangeBlocks(st.range) : n >= next_to_execute(st) /\ n \notin st.pending \cup st.ready}

\* The item ends the batch with an error: the batch and the fetches are dropped.
stream_failed(st, item) ==
    [st EXCEPT !.items = Append(@, item), !.ret = "Err", !.acc = None,
               !.pending = {}, !.ready = {}]

stream_panicked(st) == [st EXCEPT !.ret = "panic", !.acc = None]

\* One step of the chain stream's executor on the fetched block n: the batch
\* logic of execute_range, a block at a time.
chain_step(st, n, f, oc) ==
    LET parent == saturating_sub(st.range.start, 1)
        pre    == history_by_block_number(parent)
        a0     == IF st.acc = None
                  THEN [blocks |-> <<>>, results |-> <<>>, state |-> pre, pre |-> pre,
                        size |-> 0, cumulative_gas |-> 0]
                  ELSE unwrap(st.acc)
        out    == execute_one(a0.state, n)
        a2     == [blocks |-> Append(a0.blocks, n),
                   results |-> Append(a0.results, out.receipt),
                   state |-> out.post, pre |-> a0.pre,
                   size |-> a0.size + changes(n),
                   cumulative_gas |-> a0.cumulative_gas + gas_used(n)]
        cnt    == blocks_processed(n, st.range.start)
        ran    == [st EXCEPT !.execs = Append(@, n), !.ready = @ \ {n}]
    IN
    IF st.acc = None /\ snapshot_fails(f, parent) THEN stream_failed(st, ErrItem("ProviderError", parent))
    ELSE IF fetch_fails(f, n) THEN stream_failed(st, ErrItem("ProviderError", n))
    ELSE IF block_absent(f, n) THEN stream_failed(st, ErrItem("HeaderNotFound", n))
    ELSE IF execution_fails(f, n) THEN stream_failed(ran, ErrItem("ExecutionError", n))
    ELSE IF cnt > U64_MAX /\ oc THEN stream_panicked(ran)
    ELSE IF is_end_of_batch(st.thresholds, cnt % (U64_MAX + 1), a2.size, a2.cumulative_gas, 0)
            \/ n = st.range.end
    THEN IF n + 1 > U64_MAX /\ oc THEN stream_panicked(ran)
         ELSE [ran EXCEPT !.items = Append(@, OkChain(a2.blocks, Head(a2.blocks),
                                                       [pre |-> a2.pre, post |-> a2.state], a2.results)),
                          !.ret = "Ok", !.acc = None,
                          !.range = advance_range(st.range, n)]
    ELSE [ran EXCEPT !.acc = Some(a2)]

\* One step of the single-block stream on the fetched block n.
single_step(st, n, f) ==
    LET o == single_next(st.range, f)
    IN [st EXCEPT !.items = Append(@, o.item), !.ret = o.ret, !.range = o.range,
                  !.ready = @ \ {n},
                  !.execs = @ \o Calls(o.log, "execute")]

\* BackfillJob::into_stream / SingleBlockBackfillJob::into_stream
\* (job.rs:66-69, 190-199): the job moves into the stream.
IntoStream(j) ==
    /\ job[j].kind \in {"multi", "single"}
    /\ job[j].ret # "panic"
    /\ stream.kind = "none"
    /\ stream' = StreamBackfillJob(job[j])
    /\ job' = [job EXCEPT ![j].kind = "moved"]
    /\ UNCHANGED <<fault, overflow_checks, service, auth, server>>

\* The stream starts the fetch of the next block while fewer than
\* `parallelism` fetches are outstanding.
StreamSpawn ==
    /\ StreamAlive(stream)
    /\ Cardinality(stream.pending \cup stream.ready) < stream.parallelism
    /\ to_fetch(stream) # {}
    /\ LET n == CHOOSE m \in to_fetch(stream) : \A k \in to_fetch(stream) : m <= k
       IN stream' = [stream EXCEPT !.pending = @ \cup {n}]
    /\ UNCHANGED <<job, fault, overflow_checks, service, auth, server>>

\* A fetch in flight returns; fetches return in any order.
StreamFetchDone ==
    /\ StreamAlive(stream)
    /\ \E n \in stream.pending :
         stream' = [stream EXCEPT !.pending = @ \ {n}, !.ready = @ \cup {n}]
    /\ UNCHANGED <<job, fault, overflow_checks, service, auth, server>>

\* The stream's executor runs one fetched block.
StreamExecute ==
    /\ StreamAlive(stream)
    /\ Len(stream.items) < MaxItems
    /\ ~is_empty(stream.range)
    /\ \E n \in take_ready(stream) :
         LET st2 == IF stream.kind = "chain"
                    THEN chain_step(stream, n, fault, overflow_checks)
                    ELSE single_step(stream, n, fault)
         IN /\ (st2.ret = "Err" /\ Len(st2.items) > Len(stream.items)) => Errs(stream.items) < MaxErrs
            /\ stream' = st2
    /\ UNCHANGED <<job, fault, overflow_checks, service, auth, server>>

\* The remaining range is empty: the stream ends.
StreamEnd ==
    /\ StreamAlive(stream)
    /\ is_empty(stream.range)
    /\ stream' = [stream EXCEPT !.ret = "None"]
    /\ UNCHANGED <<job, fault, overflow_checks, service, auth, server>>

(***************** ChainOrchestrator and EngineService *********************)
\* What the polled adapter reports in one poll. The engine handler: a
\* live-processing event, a block the tree rejected, a gap it cannot close
\* (backfill needed), a fatal error, or nothing yet. Pipeline sync: progress,
\* the target range finished, a fatal error, or nothing yet.
HandlerReports == {"event", "invalid", "gap", "fatal", "pending"}
BackfillReports == {"progress", "finished", "fatal", "pending"}

\* ChainOrchestrator::new(handler, backfill_sync): both adapters are handed
\* over at construction; the sync mode starts as Live; neither is polled.
ChainOrchestrator_new(handler, backfill_sync) ==
    [mode |-> "Live", handler |-> handler, backfill_sync |-> backfill_sync,
     head |-> 0, target |-> 0, polled |-> {}]

\* The adapter the sync mode selects.
active(o) == IF o.mode = "Live" THEN "handler" ELSE "backfill_sync"

\* Mutant: the orchestrator polls the pipeline next to the engine handler.
adapters_polled_both(o) == {"handler", "backfill_sync"}

\* The adapters one poll of the orchestrator polls.
adapters_polled(o) == IF o[active(o)] = "fatal" THEN {} ELSE {active(o)}

\* Mutant: a gap is answered by staying in Live; the handler goes on.
on_gap_ignored(o, target) == o

\* Live -> Backfilling on the handler's gap signal, up to the target block.
on_gap(o, target) == [o EXCEPT !.mode = "Backfilling", !.target = target]

\* Backfilling -> Live when pipeline sync reports the target range finished.
on_finished(o) == [o EXCEPT !.mode = "Live", !.head = o.target]

\* The value of a poll: Ready(Some(event)), Ready(None) or Pending.
Ready(event) == [poll |-> "Ready", event |-> event]
Pending == [poll |-> "Pending", event |-> <<"", 0>>]
Closed == [poll |-> "Ready(None)", event |-> <<"", 0>>]

\* Mutant: the orchestrator keeps an adapter's error to itself.
relay_errors_dropped(kind, n) ==
    IF kind \in {"InvalidBlock", "FatalError"} THEN Pending ELSE Ready(<<kind, n>>)

\* What the adapter reported goes out as an item of the event stream.
relay(kind, n) == Ready(<<kind, n>>)

\* One poll of the orchestrator, the polled adapter reporting `report` (and,
\* for a gap, the target block): the orchestrator after it and the poll's value.
orchestrator_poll(o, report, target) ==
    LET o1 == [o EXCEPT !.polled = adapters_polled(o)]
    IN
    IF o1.polled = {} THEN [orchestrator |-> o1, value |-> Closed]
    ELSE IF report = "pending" THEN [orchestrator |-> o1, value |-> Pending]
    ELSE IF report = "fatal"
    THEN [orchestrator |-> [o1 EXCEPT ![active(o)] = "fatal"], value |-> relay("FatalError", 0)]
    ELSE IF o.mode = "Live"
    THEN CASE report = "event" ->
                [orchestrator |-> [o1 EXCEPT !.head = o.head + 1], value |-> relay("Live", o.head + 1)]
           [] report = "invalid" ->
                [orchestrator |-> o1, value |-> relay("InvalidBlock", o.head + 1)]
           [] OTHER ->
                [orchestrator |-> on_gap(o1, target), value |-> relay("BackfillStarted", target)]
    ELSE CASE report = "progress" ->
                [orchestrator |-> o1, value |-> relay("BackfillProgress", 0)]
           [] OTHER ->
                [orchestrator |-> on_finished(o1), value |-> relay("BackfillFinished", o.target)]

\* EngineService::new (service.rs:93-122) builds the engine handler and the
\* pipeline sync and wires both into the orchestrator. events is the stream
\* observed from the service, reported the errors the adapters reported,
\* gaps the number of gap signals, value the value of the last poll, inserted
\* the blocks the live path put into the tree, backfilled the blocks handed
\* to pipeline sync; returned are the values the orchestrator returned during
\* the last poll of the service, emitted the events the orchestrator has
\* yielded so far.
EngineService_new ==
    [orchestrator |-> ChainOrchestrator_new("usable", "usable"),
     events |-> <<>>, reported |-> <<>>, gaps |-> 0, value |-> Pending,
     inserted |-> {}, backfilled |-> {}, returned |-> <<>>, emitted |-> <<>>]

\* Mutant: the service keeps the pipeline's progress events to itself.
poll_next_unpin_quiet(o, report, target) ==
    LET r == orchestrator_poll(o, report, target)
    IN [orchestrator |-> r.orchestrator, polls |-> <<r.value>>,
        value |-> IF r.value.poll = "Ready" /\ r.value.event[1] = "BackfillProgress"
                  THEN Pending ELSE r.value]

\* StreamExt::poll_next_unpin(&mut orchestrator, cx) (service.rs:139): the
\* orchestrator is polled once; polls are the values it returned.
poll_next_unpin(o, report, target) ==
    LET r == orchestrator_poll(o, report, target)
    IN [orchestrator |-> r.orchestrator, polls |-> <<r.value>>, value |-> r.value]

\* <EngineService as Stream>::poll_next (service.rs:137-140): one poll of the
\* orchestrator, its value returned as it is.
poll_next(svc, report, target) ==
    LET r == poll_next_unpin(svc.orchestrator, report, target)
        polled == r.orchestrator.polled # {}
        yielded == SelectSeq(r.polls, LAMBDA v : v.poll = "Ready")
    IN [orchestrator |-> r.orchestrator,
        returned |-> r.polls,
        emitted |-> svc.emitted \o [i \in 1..Len(yielded) |-> yielded[i].event],
        events |-> IF r.value.poll = "Ready" THEN Append(svc.events, r.value.event) ELSE svc.events,
        reported |-> IF polled /\ report \in {"invalid", "fatal"}
                     THEN Append(svc.reported, IF report = "invalid" THEN "InvalidBlock" ELSE "FatalError")
                     ELSE svc.reported,
        gaps |-> IF polled /\ report = "gap" THEN svc.gaps + 1 ELSE svc.gaps,
        value |-> r.value,
        inserted |-> IF "handler" \in r.orchestrator.polled /\ report = "event"
                     THEN svc.inserted \cup {svc.orchestrator.head + 1} ELSE svc.inserted,
        backfilled |-> IF r.orchestrator.mode = "Backfilling"
                       THEN svc.backfilled \cup (svc.orchestrator.head + 1..r.orchestrator.target)
                       ELSE svc.backfilled]

\* The driver polls the service; the polled adapter reports one of the things
\* it can report in the current mode.
PollNext ==
    /\ Len(service.events) < MaxEvents
    /\ \E report \in HandlerReports \cup BackfillReports, target \in 1..MaxHead :
         /\ service.orchestrator.mode = "Live" => report \in HandlerReports
         /\ service.orchestrator.mode = "Backfilling" => report \in BackfillReports
         /\ report = "event" => service.orchestrator.head < MaxHead
         /\ report = "gap" => target > service.orchestrator.head
         /\ report # "gap" => target = MaxHead
         /\ service' = poll_next(service, report, target)
    /\ UNCHANGED <<job, fault, overflow_checks, stream, auth, server>>

(******************* AuthRpcModule (rpc-builder/src/auth.rs) ***************)
\* The method names a module can hold and the callbacks a name can be bound
\* to. jsonrpsee's Methods is a map from method names to callbacks.
MethodNames == {"engine_newPayloadV1", "engine_getPayloadV1", "eth_chainId"}
Handlers == 1..MaxHandlers
Methods == UNION {[S -> Handlers] : S \in SUBSET MethodNames}
method_names(other) == DOMAIN other

\* The lists of names a caller can hand to remove_auth_methods: any order,
\* repetitions and absent names included.
NameLists == UNION {[1..k -> MethodNames] : k \in 0..MaxRemovals}

\* The orders in which method_names() can enumerate the names of a map.
Enumerations(S) ==
    {q \in [1..Cardinality(S) -> S] : \A n \in S : \E i \in DOMAIN q : q[i] = n}

\* Result<T, RegisterMethodError>.
Ok(v) == [Ok |-> v]
Err(e) == [Err |-> e]
is_ok(r) == "Ok" \in DOMAIN r
AlreadyRegistered == Err("RegisterMethodError::AlreadyRegistered")

\* A merge that inserts the methods it can and reports the conflict afterwards.
merge_partial(callbacks, other) ==
    [callbacks |-> [name \in DOMAIN callbacks \cup DOMAIN other |->
                      IF name \in DOMAIN callbacks THEN callbacks[name] ELSE other[name]],
     result |-> IF \E name \in DOMAIN other : name \in DOMAIN callbacks
                THEN AlreadyRegistered ELSE Ok(<<>>)]

\* Methods::merge, called at auth.rs:264: every name of other is verified
\* against the installed names first, then every callback is inserted.
merge(callbacks, other) ==
    IF \E name \in DOMAIN other : name \in DOMAIN callbacks
    THEN [callbacks |-> callbacks, result |-> AlreadyRegistered]
    ELSE [callbacks |-> [name \in DOMAIN callbacks \cup DOMAIN other |->
                           IF name \in DOMAIN other THEN other[name] ELSE callbacks[name]],
          result |-> Ok(<<>>)]

\* Methods::remove_method, called at auth.rs:271: the callback of the name is
\* taken out of the map and returned, None when the name is not installed.
remove_method(callbacks, name) ==
    [callbacks |-> [n \in DOMAIN callbacks \ {name} |-> callbacks[n]],
     removed |-> IF name \in DOMAIN callbacks THEN Some(callbacks[name]) ELSE None]

\* AuthRpcModule::new (auth.rs:248-250).
AuthRpcModule_new(engine) == [inner |-> engine]

\* AuthRpcModule::merge_auth_methods (auth.rs:260-265).
merge_auth_methods(m, other) ==
    LET r == merge(m.inner, other)
    IN [module |-> [m EXCEPT !.inner = r.callbacks],
        ret |-> IF is_ok(r.result) THEN Ok(TRUE) ELSE r.result]

\* A removal that reports success whatever it found.
remove_auth_method_blind(m, method_name) ==
    [module |-> [m EXCEPT !.inner = remove_method(m.inner, method_name).callbacks],
     ret |-> TRUE]

\* AuthRpcModule::remove_auth_method (auth.rs:270-272).
remove_auth_method(m, method_name) ==
    LET r == remove_method(m.inner, method_name)
    IN [module |-> [m EXCEPT !.inner = r.callbacks], ret |-> is_some(r.removed)]

\* AuthRpcModule::remove_auth_methods (auth.rs:275-279): the names one by one,
\* the results dropped.
RECURSIVE remove_auth_methods(_, _)
remove_auth_methods(m, methods) ==
    IF methods = <<>> THEN [module |-> m]
    ELSE remove_auth_methods(remove_auth_method(m, Head(methods)).module, Tail(methods))

\* A replacement that merges without removing first.
replace_auth_methods_merging(m, other, names) ==
    merge_auth_methods(m, other)

\* AuthRpcModule::replace_auth_methods (auth.rs:282-289); names is the order
\* in which other.method_names() enumerates the names of other.
replace_auth_methods(m, other, names) ==
    merge_auth_methods(remove_auth_methods(m, names).module, other)

\* The auth module with its history: the module, the module before the last
\* operation, the operation, its argument under the parameter's name and
\* what it returned: a Result, a bool or nothing.
AuthState(m, before, op, arg, ret) ==
    [module |-> m, before |-> before, op |-> op, arg |-> arg, ret |-> ret]

Bool(b) == [bool |-> b]
Unit == [unit |-> TRUE]

NoAuth ==
    AuthState(AuthRpcModule_new(<<>>), AuthRpcModule_new(<<>>), "new", [engine |-> <<>>], Unit)

MergeAuthMethods ==
    /\ \E other \in Methods :
         LET r == merge_auth_methods(auth.module, other)
         IN auth' = AuthState(r.module, auth.module, "merge_auth_methods", [other |-> other], r.ret)
    /\ UNCHANGED <<job, fault, overflow_checks, stream, service, server>>

RemoveAuthMethod ==
    /\ \E method_name \in MethodNames :
         LET r == remove_auth_method(auth.module, method_name)
         IN auth' = AuthState(r.module, auth.module, "remove_auth_method",
                             [method_name |-> method_name], Bool(r.ret))
    /\ UNCHANGED <<job, fault, overflow_checks, stream, service, server>>

RemoveAuthMethods ==
    /\ \E methods \in NameLists :
         LET r == remove_auth_methods(auth.module, methods)
         IN auth' = AuthState(r.module, auth.module, "remove_auth_methods", [methods |-> methods], Unit)
    /\ UNCHANGED <<job, fault, overflow_checks, stream, service, server>>

ReplaceAuthMethods ==
    /\ \E other \in Methods :
         \E names \in Enumerations(method_names(other)) :
            LET r == replace_auth_methods(auth.module, other, names)
            IN auth' = AuthState(r.module, auth.module, "replace_auth_methods", [other |-> other], r.ret)
    /\ UNCHANGED <<job, fault, overflow_checks, stream, service, server>>

(***************************** auth server ********************************)
\* constants::DEFAULT_ENGINE_API_IPC_ENDPOINT and the endpoints a caller can
\* configure, the default's path among them.
DEFAULT_ENGINE_API_IPC_ENDPOINT == "/tmp/reth_engine_api.ipc"
IpcEndpoints == {DEFAULT_ENGINE_API_IPC_ENDPOINT, "/tmp/custom_engine_api.ipc"}

\* The IpcServerBuilder values a caller can hand to with_ipc_config.
IpcServerBuilders == 1..MaxIpcConfigs

\* What can go wrong during start: the socket address cannot be bound or the
\* IPC server cannot be started.
StartFailures == {"none", "bind", "ipc"}

\* AuthServerConfigBuilder::new (auth.rs:135-144).
AuthServerConfigBuilder_new == [ipc_server_config |-> None, ipc_endpoint |-> None]

\* AuthServerConfigBuilder::ipc_endpoint (auth.rs:189-192).
builder_ipc_endpoint(self, endpoint) == [self EXCEPT !.ipc_endpoint = Some(endpoint)]

\* AuthServerConfigBuilder::with_ipc_config (auth.rs:197-200).
with_ipc_config(self, config) ==
    [self EXCEPT !.ipc_server_config =
       Some([builder |-> config, id_provider |-> "EthSubscriptionIdProvider"])]

\* AuthServerConfigBuilder::build (auth.rs:203-237): the IPC server config,
\* if there is one, gets the limits; the endpoint is passed on as it is.
build(self) ==
    [ipc_server_config |->
       IF is_some(self.ipc_server_config)
       THEN Some([builder |-> unwrap(self.ipc_server_config).builder,
                  id_provider |-> "EthSubscriptionIdProvider",
                  max_connections |-> 500])
       ELSE None,
     ipc_endpoint |-> self.ipc_endpoint]

\* AuthServerHandle (auth.rs:306-312).
AuthServerHandle(handle, ipc_endpoint_, ipc_handle_) ==
    [handle |-> handle, ipc_endpoint |-> ipc_endpoint_, ipc_handle |-> ipc_handle_]

\* AuthServerConfig::start (auth.rs:71-117). The IPC server is built with the
\* configured endpoint or else the default one; the handle is given the
\* config's ipc_endpoint.
start(self, module, failure) ==
    IF failure = "bind" THEN Err("RpcError::ServerError")
    ELSE
      LET handle == [methods |-> module.inner]
          ipc_endpoint_str == IF is_some(self.ipc_endpoint) THEN unwrap(self.ipc_endpoint)
                              ELSE DEFAULT_ENGINE_API_IPC_ENDPOINT
          ipc_server == [config |-> unwrap(self.ipc_server_config),
                         endpoint |-> ipc_endpoint_str,
                         methods |-> module.inner]
      IN IF is_some(self.ipc_server_config)
         THEN IF failure = "ipc" THEN Err("RpcError::IpcServerError")
              ELSE Ok(AuthServerHandle(Some(handle), self.ipc_endpoint, Some(ipc_server)))
         ELSE Ok(AuthServerHandle(Some(handle), self.ipc_endpoint, None))

\* AuthServerHandle::ipc_handle (auth.rs:397-399).
ipc_handle(self) == self.ipc_handle

\* AuthServerHandle::ipc_endpoint (auth.rs:402-404).
ipc_endpoint(self) == self.ipc_endpoint

\* The endpoints a server of this process listens on.
Listening(self) ==
    IF is_some(self.ipc_handle) THEN {unwrap(self.ipc_handle).endpoint} ELSE {}

\* AuthServerHandle::ipc_client (auth.rs:382-394): None without an endpoint
\* in the handle, else a client connected to that endpoint; the expect panics
\* when nothing listens there.
ipc_client(self) ==
    IF is_some(self.ipc_endpoint)
    THEN IF unwrap(self.ipc_endpoint) \in Listening(self)
         THEN [returned |-> Some([connected_to |-> unwrap(self.ipc_endpoint)])]
         ELSE [panic |-> "Failed to create ipc client"]
    ELSE [returned |-> None]

\* The auth server with its history: the builder, the config built from it,
\* what start returned and what ipc_client returned, each None until made.
NoServer ==
    [builder |-> AuthServerConfigBuilder_new, config |-> None, started |-> None,
     client |-> None]

\* The caller sets the IPC endpoint of the builder.
IpcEndpoint ==
    /\ server.config = None
    /\ \E endpoint \in IpcEndpoints :
         server' = [server EXCEPT !.builder = builder_ipc_endpoint(server.builder, endpoint)]
    /\ UNCHANGED <<job, fault, overflow_checks, stream, service, auth>>

\* The caller hands an IPC server config to the builder.
WithIpcConfig ==
    /\ server.config = None
    /\ \E config \in IpcServerBuilders :
         server' = [server EXCEPT !.builder = with_ipc_config(server.builder, config)]
    /\ UNCHANGED <<job, fault, overflow_checks, stream, service, auth>>

Build ==
    /\ server.config = None
    /\ server' = [server EXCEPT !.config = Some(build(server.builder))]
    /\ UNCHANGED <<job, fault, overflow_checks, stream, service, auth>>

\* The config is started with the auth module.
Start ==
    /\ is_some(server.config)
    /\ server.started = None
    /\ \E failure \in StartFailures :
         server' = [server EXCEPT
                      !.started = Some(start(unwrap(server.config), auth.module, failure))]
    /\ UNCHANGED <<job, fault, overflow_checks, stream, service, auth>>

\* The owner of a handle asks it for an IPC client.
IpcClient ==
    /\ is_some(server.started)
    /\ is_ok(unwrap(server.started))
    /\ server.client = None
    /\ server' = [server EXCEPT !.client = Some(ipc_client(unwrap(server.started).Ok))]
    /\ UNCHANGED <<job, fault, overflow_checks, stream, service, auth>>

\* A caller pulls the multi-block job j.
Next_(j) ==
    /\ job[j].kind = "multi"
    /\ Callable(job[j])
    /\ \E slow \in Clocks(job[j].range, job[j].thresholds) :
         LET o == next(job[j].range, job[j].thresholds, fault, slow, overflow_checks)
         IN /\ Recordable(job[j], o.ret)
            /\ job' = [job EXCEPT ![j] = Returned(job[j], o)]
    /\ UNCHANGED <<fault, overflow_checks, stream, service, auth, server>>

\* A caller pulls the multi-block job j on a machine so fast that no batch
\* ever takes a time unit.
NextFast(j) ==
    /\ job[j].kind = "multi"
    /\ Callable(job[j])
    /\ LET o == next(job[j].range, job[j].thresholds, fault, None, overflow_checks)
       IN /\ Recordable(job[j], o.ret)
          /\ job' = [job EXCEPT ![j] = Returned(job[j], o)]
    /\ UNCHANGED <<fault, overflow_checks, stream, service, auth, server>>

\* A caller pulls the single-block job j.
SingleNext(j) ==
    /\ job[j].kind = "single"
    /\ Callable(job[j])
    /\ LET o == single_next(job[j].range, fault)
       IN /\ Recordable(job[j], o.ret)
          /\ job' = [job EXCEPT ![j] = Returned(job[j], o)]
    /\ UNCHANGED <<fault, overflow_checks, stream, service, auth, server>>

\* BackfillJob::into_single_blocks / From<BackfillJob> (job.rs:61-64, 232-241).
IntoSingleBlocks(j) ==
    /\ job[j].kind = "multi"
    /\ job[j].ret # "panic"
    /\ job' = [job EXCEPT ![j] = SingleBlockBackfillJob(job[j])]
    /\ UNCHANGED <<fault, overflow_checks, stream, service, auth, server>>

\* After a job reported an error the operator repairs the provider (the
\* missing block is downloaded, the history becomes available, the bad block
\* is replaced).
Repair ==
    /\ fault # NoFault
    /\ \E j \in JobIds : job[j].ret = "Err"
    /\ fault' = NoFault
    /\ UNCHANGED <<job, overflow_checks, stream, service, auth, server>>

Init ==
    /\ \E r \in Ranges, t \in ThresholdSets :
         job = [j \in JobIds |-> IF j = 1 THEN BackfillJob(r, t) ELSE Absent]
    /\ fault \in Faults
    /\ overflow_checks \in BOOLEAN
    /\ stream = NoStream
    /\ service = EngineService_new
    /\ auth = NoAuth
    /\ server = NoServer

\* A multi-block job pulled by its caller.
Next ==
    \/ Next_(1)
    \/ Repair

Spec == Init /\ [][Next]_vars

\* A job that its caller may convert into a single-block job at any point.
NextSingle ==
    \/ Next_(1)
    \/ IntoSingleBlocks(1)
    \/ SingleNext(1)
    \/ Repair

SpecSingle == Init /\ [][NextSingle]_vars

\* Two jobs over the same range and the same healthy provider: job 1 batches
\* under the thresholds t, job 2 is either a multi-block job whose thresholds
\* never trip or a single-block job.
InitPair ==
    /\ \E r \in Ranges, t \in ThresholdSets :
         \E other \in {BackfillJob(r, NoThresholds), SingleBlockBackfillJob(BackfillJob(r, t))} :
            job = [j \in JobIds |-> IF j = 1 THEN BackfillJob(r, t) ELSE other]
    /\ fault = NoFault
    /\ overflow_checks \in BOOLEAN
    /\ stream = NoStream
    /\ service = EngineService_new
    /\ auth = NoAuth
    /\ server = NoServer

NextPair ==
    \/ Next_(1)
    \/ Next_(2)
    \/ SingleNext(2)

SpecPair == InitPair /\ [][NextPair]_vars

\* Two runs of the same job: the same range, the same thresholds, the same
\* healthy provider, the same build; the first run is made on a fast machine,
\* the second on a machine of any speed. max_duration is tried on its own.
InitTwin ==
    /\ \E r \in Ranges, t \in ThresholdSets :
         /\ is_some(t.max_duration) => t.max_blocks = None
         /\ job = [j \in JobIds |-> BackfillJob(r, t)]
    /\ fault = NoFault
    /\ overflow_checks \in BOOLEAN
    /\ stream = NoStream
    /\ service = EngineService_new
    /\ auth = NoAuth
    /\ server = NoServer

\* The second run is made once the first can be pulled no further.
SecondRun ==
    /\ job[1].ret = "None" \/ ~Callable(job[1])
    /\ Next_(2)

NextTwin ==
    \/ NextFast(1)
    \/ SecondRun

SpecTwin == InitTwin /\ [][NextTwin]_vars

\* A job turned into a stream before its first pull, directly or by way of
\* the single-block job; the provider's defect, if any, stays. The thresholds
\* set the block or the gas limit, or none.
InitStream ==
    /\ \E r \in Ranges, t \in ThresholdSets, p \in 1..MaxParallelism :
         /\ t.max_duration = None /\ t.max_changes = None
         /\ job = [j \in JobIds |-> IF j = 1 THEN [BackfillJob(r, t) EXCEPT !.stream_parallelism = p]
                                    ELSE Absent]
    /\ fault \in Faults
    /\ overflow_checks \in BOOLEAN
    /\ stream = NoStream
    /\ service = EngineService_new
    /\ auth = NoAuth
    /\ server = NoServer

NextStream ==
    \/ IntoSingleBlocks(1)
    \/ IntoStream(1)
    \/ StreamSpawn
    \/ StreamFetchDone
    \/ StreamExecute
    \/ StreamEnd

SpecStream == InitStream /\ [][NextStream]_vars

\* The engine service right after construction, polled by its driver.
InitService ==
    /\ job = [j \in JobIds |-> Absent]
    /\ fault = NoFault
    /\ overflow_checks \in BOOLEAN
    /\ stream = NoStream
    /\ service = EngineService_new
    /\ auth = NoAuth
    /\ server = NoServer

NextService ==
    \/ PollNext

SpecService == InitService /\ [][NextService]_vars

\* An auth module built from any engine module.
InitAuth ==
    /\ job = [j \in JobIds |-> Absent]
    /\ fault = NoFault
    /\ overflow_checks \in BOOLEAN
    /\ stream = NoStream
    /\ service = EngineService_new
    /\ \E engine \in Methods :
         auth = AuthState(AuthRpcModule_new(engine), AuthRpcModule_new(engine), "new",
                          [engine |-> engine], Unit)
    /\ server = NoServer

\* The owner of the module merges method sets into it and removes methods.
NextAuth ==
    \/ MergeAuthMethods
    \/ RemoveAuthMethod
    \/ RemoveAuthMethods

SpecAuth == InitAuth /\ [][NextAuth]_vars

\* The owner of the module replaces method sets, again and again.
NextAuthReplace ==
    \/ ReplaceAuthMethods

SpecAuthReplace == InitAuth /\ [][NextAuthReplace]_vars

\* An auth server configured, built and started with any auth module, then
\* asked for an IPC client.
NextAuthServer ==
    \/ IpcEndpoint
    \/ WithIpcConfig
    \/ Build
    \/ Start
    \/ IpcClient

SpecAuthServer == InitAuth /\ [][NextAuthServer]_vars

(*************************** observations **********************************)
\* The block numbers of the items' segments, in yield order.
RECURSIVE YieldedBlocks(_)
YieldedBlocks(items) ==
    IF items = <<>> THEN <<>> ELSE Head(items).blocks \o YieldedBlocks(Tail(items))

\* s, s+1, ..., s+k-1.
Consecutive(s, k) == [i \in 1..k |-> s + i - 1]

\* The blocks of the range r in ascending order.
RangeSeq(r) == IF is_empty(r) THEN <<>> ELSE Consecutive(r.start, r.end - r.start + 1)

IsPrefix(a, b) == Len(a) <= Len(b) /\ SubSeq(b, 1, Len(a)) = a

Last(q) == q[Len(q)]

\* The provider never had a defect while the job ran.
Clean(jb) == fault = NoFault /\ Errs(jb.items) = 0

\* The last pull returned an error from the fetch or the execution of a block
\* (not from the snapshot request); FailedBlock is that block.
BlockFailed(jb) == jb.ret = "Err" /\ Last(jb.log)[1] \in {"fetch", "execute"}
FailedBlock(jb) == Last(jb.log)[2]

\* The first block the last pull fetched.
FirstFetched(jb) == jb.log[2][2]

(***************************** claims **************************************)
\* C1: over a range [s, e] whose blocks are all present and executable, pulling
\* next until None yields only Ok segments whose blocks, concatenated, are
\* exactly s, s+1, ..., e, and an empty range yields None: no pull fails or
\* panics, what was yielded so far is always an initial part of s..e, and
\* once None is returned all of s..e was yielded.
C1_YieldsExactlyTheRange ==
    LET jb == job[1] IN
    (jb.kind = "multi" /\ Clean(jb)) =>
        /\ jb.ret # "panic"
        /\ IsPrefix(YieldedBlocks(jb.items), RangeSeq(jb.range0))
        /\ (jb.ret = "None" => YieldedBlocks(jb.items) = RangeSeq(jb.range0))
        /\ (is_empty(jb.range) /\ jb.ret # "new" => YieldedBlocks(jb.items) = RangeSeq(jb.range0))

\* C2 (as claimed): after a batch fails at the fetch or execution of block b,
\* the remaining range starts at b, wherever b lies in the batch.
C2_RangeStartsAtFailedBlock ==
    LET jb == job[1] IN
    (jb.kind = "multi" /\ BlockFailed(jb)) => jb.range.start = FailedBlock(jb)

\* C2 (amended): after a batch fails at the fetch or execution of block b, the
\* remaining range starts at the first block of the failed batch, which is b
\* only when b is the batch's first block and is below b otherwise; it never
\* starts at b + 1, and its end is the job's end.
C2_RangeStartsAtBatchStart ==
    LET jb == job[1] IN
    (jb.kind = "multi" /\ BlockFailed(jb)) =>
        /\ jb.range.start = FirstFetched(jb)
        /\ jb.range.start <= FailedBlock(jb)
        /\ jb.range.start # FailedBlock(jb) + 1
        /\ jb.range.end = jb.range0.end
        /\ ~is_empty(jb.range)

\* A batch failed at a block that is not its first.
C2_Witness ==
    LET jb == job[1] IN
    /\ jb.kind = "multi" /\ BlockFailed(jb)
    /\ FailedBlock(jb) > jb.range.start
    /\ Last(jb.items).cause = "ExecutionError"

\* C3: a pull of the multi-block job that returns Some(Err(_)) leaves the range
\* (start, end) exactly as it was before the call, and the pull that follows an
\* error starts from the same range: it requests the same snapshot and, when
\* it gets to fetch, fetches the same first block.
C3_ErrLeavesRange ==
    [][\A j \in JobIds :
         (job[j].kind = "multi" /\ job'[j].kind = "multi" /\ job'[j] # job[j]) =>
            /\ job'[j].ret = "Err" => job'[j].range = job[j].range
            /\ (job[j].ret = "Err" /\ job'[j].ret \in {"Ok", "Err"}) =>
                  /\ job'[j].before = job[j].before
                  /\ job'[j].log[1] = job[j].log[1]
                  /\ (Len(job'[j].log) > 1 /\ Len(job[j].log) > 1) => job'[j].log[2] = job[j].log[2]]_vars

\* An error was followed, after a repair, by a segment that begins at the very
\* block at which the failed batch began and contains the block that failed.
C3_Witness ==
    LET jb == job[1] n == Len(job[1].items) IN
    /\ jb.kind = "multi" /\ n >= 2
    /\ jb.items[n - 1].tag = "Err" /\ jb.items[n].tag = "Ok"
    /\ jb.items[n].first = jb.before.start
    /\ \E i \in 1..Len(jb.items[n].blocks) : i > 1 /\ jb.items[n].blocks[i] = jb.items[n - 1].at


\* C4 (as claimed): when the single-block job returns Some(Err(_)) for block b,
\* its range is unchanged and still starts at b.
C4_SingleErrLeavesRange ==
    LET jb == job[1] IN
    (jb.kind = "single" /\ jb.ret = "Err") =>
        /\ jb.range = jb.before
        /\ jb.range.start = jb.log[1][2]

\* C4 (amended): the single-block job takes block number b out of its range
\* before it executes b, so when next returns Some(Err(_)) for block b (the
\* first block of the range before the call) the remaining range no longer
\* holds b: it starts at b + 1, or is exhausted when b was the last block; the
\* end is unchanged and the next pull moves on to b + 1.
C4_SingleErrAdvancesRange ==
    LET jb == job[1] b == job[1].log[1][2] IN
    (jb.kind = "single" /\ jb.ret = "Err") =>
        /\ b = jb.before.start
        /\ b \notin RangeBlocks(jb.range)
        /\ jb.range.end = jb.before.end
        /\ b < jb.before.end => (jb.range.start = b + 1 /\ ~is_empty(jb.range))
        /\ b = jb.before.end => is_empty(jb.range)
        /\ RangeBlocks(jb.range) = RangeBlocks(jb.before) \ {b}

\* The single-block job returned an error for a block that is not the last
\* one of its range.
C4_Witness ==
    LET jb == job[1] IN
    /\ jb.kind = "single" /\ jb.ret = "Err"
    /\ jb.log[1][2] < jb.before.end
    /\ jb.range.start = jb.log[1][2] + 1

\* C5: after any sequence of next calls of the multi-block job, range.start is
\* the initial start plus the number of blocks yielded so far; every yielded
\* block lies below range.start and every block of the initial range below
\* range.start was yielded.
C5_StartIsCommittedPlusOne ==
    LET jb == job[1] ys == YieldedBlocks(job[1].items) IN
    jb.kind = "multi" =>
        /\ jb.range.start = jb.range0.start + Len(ys)
        /\ \A i \in 1..Len(ys) : ys[i] < jb.range.start
        /\ \A n \in RangeBlocks(jb.range0) :
              n < jb.range.start => \E i \in 1..Len(ys) : ys[i] = n

\* C6: every segment the multi-block job yields holds at least one block (and
\* as many results as blocks) under every threshold configuration; the block
\* executed last, the one after which the thresholds ended the batch, is the
\* segment's last block; the non-empty expectation of execute_range never
\* fails, and execute_range only runs on a non-empty range.
C6_SegmentsNonEmpty ==
    LET jb == job[1] IN
    jb.kind = "multi" =>
        /\ \A i \in 1..Len(jb.items) :
              jb.items[i].tag = "Ok" =>
                 /\ Len(jb.items[i].blocks) >= 1
                 /\ Len(jb.items[i].results) = Len(jb.items[i].blocks)
        /\ jb.ret = "Ok" => Last(jb.log) = <<"execute", Last(Last(jb.items).blocks)>>
        /\ jb.panic # "blocks should not be empty"
        /\ jb.log # <<>> => ~is_empty(jb.before)

\* Two one-block segments were yielded although the first block of each alone
\* exceeds a threshold: max_blocks is 0 and the gas limit is below the gas of
\* the first segment's block.
C6_Witness ==
    LET jb == job[1] IN
    /\ jb.kind = "multi" /\ jb.ret = "Ok" /\ Len(jb.items) = 2
    /\ \A i \in 1..2 : jb.items[i].tag = "Ok" /\ Len(jb.items[i].blocks) = 1
    /\ jb.thresholds.max_blocks = Some(0)
    /\ jb.thresholds.max_cumulative_gas = Some(1)
    /\ gas_used(jb.items[1].blocks[1]) > 1
    /\ ~is_empty(jb.range)

\* C7: with max_blocks = 1 and no other threshold, the job over n present,
\* executable blocks [a, a+n-1] yields exactly n segments, the i-th holding
\* exactly block a+i-1 and anchored there.
C7_OneBlockPerSegment ==
    LET jb == job[1] IN
    (jb.kind = "multi" /\ Clean(jb)
       /\ jb.thresholds = [NoThresholds EXCEPT !.max_blocks = Some(1)]) =>
        /\ jb.ret # "panic"
        /\ Len(jb.items) <= Len(RangeSeq(jb.range0))
        /\ \A i \in 1..Len(jb.items) :
              /\ jb.items[i].tag = "Ok"
              /\ jb.items[i].blocks = <<jb.range0.start + i - 1>>
              /\ jb.items[i].first = jb.range0.start + i - 1
              /\ Len(jb.items[i].results) = 1
        /\ jb.ret = "None" => Len(jb.items) = Len(RangeSeq(jb.range0))

\* C8: when no threshold trips, the job over [s, e] yields exactly one segment
\* with all of s..e in order, whose outcome is that of executing the blocks
\* against the parent state of s, and the next pull returns None.
C8_OneSegmentWhenNoThresholdTrips ==
    LET jb == job[1] IN
    (jb.kind = "multi" /\ Clean(jb) /\ jb.thresholds = NoThresholds) =>
        /\ jb.ret # "panic"
        /\ Len(jb.items) <= 1
        /\ \A i \in 1..Len(jb.items) :
              /\ jb.items[i].tag = "Ok"
              /\ jb.items[i].blocks = RangeSeq(jb.range0)
              /\ jb.items[i].first = jb.range0.start
              /\ jb.items[i].bundle.pre = history_by_block_number(saturating_sub(jb.range0.start, 1))
              /\ is_empty(jb.range)
              /\ jb.range0.start = jb.range0.end =>
                    LET alone == execute_one(history_by_block_number(saturating_sub(jb.range0.start, 1)),
                                             jb.range0.start)
                    IN /\ jb.items[i].results = <<alone.receipt>>
                       /\ jb.items[i].bundle.post = alone.post
        /\ jb.ret = "None" => Len(jb.items) = (IF is_empty(jb.range0) THEN 0 ELSE 1)


\* The job made its last call: it returned None or panicked.
Stopped(jb) == jb.ret \in {"None", "panic"}

\* The results of the items' segments, in yield order.
RECURSIVE YieldedResults(_)
YieldedResults(items) ==
    IF items = <<>> THEN <<>> ELSE Head(items).results \o YieldedResults(Tail(items))

\* The state change of all the items together: from the state the first one
\* started on to the state the last one ended with.
FinalBundle(items) ==
    IF items = <<>> THEN <<>> ELSE <<Head(items).bundle.pre, Last(items).bundle.post>>

\* C9: running a range as one job whose thresholds never trip yields the same
\* concatenated blocks and the same final state bundle as running it under
\* any thresholds T, once both runs have come to their end.
C9_BatchingKeepsResults ==
    (job[2].kind = "multi" /\ Stopped(job[1]) /\ Stopped(job[2])) =>
        /\ YieldedBlocks(job[1].items) = YieldedBlocks(job[2].items)
        /\ FinalBundle(job[1].items) = FinalBundle(job[2].items)

\* C10: over the same range the i-th item of the single-block job is the i-th
\* block, with the i-th execution result, of the multi-block job's segments,
\* and both jobs end with the same number of blocks.
C10_SingleMatchesMulti ==
    LET m == job[1] sg == job[2] IN
    sg.kind = "single" =>
        /\ \A i \in 1..Len(sg.items) :
              i <= Len(YieldedBlocks(m.items)) =>
                 /\ sg.items[i].tag = "Ok"
                 /\ sg.items[i].blocks = <<YieldedBlocks(m.items)[i]>>
                 /\ sg.items[i].results = <<YieldedResults(m.items)[i]>>
        /\ (Stopped(m) /\ Stopped(sg)) => Len(sg.items) = Len(YieldedBlocks(m.items))


\* The last call of the log is one the provider's defect f makes fail.
CallFails(log, f) ==
    /\ log # <<>>
    /\ LET c == log[Len(log)] IN
         \/ c[1] = "snapshot" /\ snapshot_fails(f, c[2])
         \/ c[1] = "fetch" /\ (fetch_fails(f, c[2]) \/ block_absent(f, c[2]))
         \/ c[1] = "execute" /\ execution_fails(f, c[2])

\* C11: a block number of the range for which the block source returns no
\* block is never skipped. While the block is absent, the pull (of either job)
\* that fetches it returns the error HeaderNotFound for that number, the fetch
\* is the pull's last call, no higher block is fetched or executed in the pull,
\* the block is never executed, and no yielded item holds it.
C11_AbsentBlockIsAnError ==
    LET jb == job[1] b == fault.block IN
    (fault.kind = "missing" /\ jb.kind \in {"multi", "single"}) =>
        /\ \A i \in 1..Len(jb.log) : jb.log[i] = <<"fetch", b>> =>
              /\ jb.ret = "Err"
              /\ Last(jb.items).tag = "Err"
              /\ Last(jb.items).cause = "HeaderNotFound"
              /\ Last(jb.items).at = b
              /\ i = Len(jb.log)
        /\ \A i \in 1..Len(jb.log) : jb.log[i] # <<"execute", b>>
        /\ (\E k \in 1..Len(jb.log) : jb.log[k] = <<"fetch", b>>) =>
              \A i \in 1..Len(jb.log) :
                 jb.log[i][1] \in {"fetch", "execute"} => jb.log[i][2] <= b
        /\ (jb.kind = "multi" /\ b \in RangeBlocks(jb.range0)) =>
              \A i \in 1..Len(YieldedBlocks(jb.items)) : YieldedBlocks(jb.items)[i] < b
        /\ \A i \in 1..Len(YieldedBlocks(jb.items)) : YieldedBlocks(jb.items)[i] # b

\* Both jobs met the absent block: the multi-block job after it had executed
\* lower blocks of the same batch, then, converted, the single-block job.
C11_Witness ==
    LET jb == job[1] IN
    /\ fault.kind = "missing"
    /\ jb.kind = "single" /\ jb.ret = "Err" /\ jb.converted >= 1
    /\ Last(jb.items).cause = "HeaderNotFound" /\ Last(jb.items).at = fault.block
    /\ jb.items[jb.converted].cause = "HeaderNotFound"
    /\ jb.items[jb.converted].at = fault.block
    /\ jb.range0.start < fault.block /\ fault.block < jb.range0.end
    /\ Errs(jb.items) = 2 /\ Len(jb.items) > 2

\* C12: a multi-block batch is atomic. A pull in which a call fails (the
\* snapshot, a fetch or an execution) yields the error alone, an item without
\* blocks or results, also when blocks of the batch had executed before the
\* failing one; a pull that yields a segment had no failing call, and the
\* segment holds exactly the blocks the pull executed, in order, with a result
\* for each and the state after the last of them.
C12_BatchIsAtomic ==
    LET jb == job[1] IN
    (jb.kind = "multi" /\ jb.log # <<>>) =>
        /\ CallFails(jb.log, fault) =>
              /\ jb.ret = "Err"
              /\ Last(jb.items).tag = "Err"
              /\ Last(jb.items).blocks = <<>>
              /\ Last(jb.items).results = <<>>
        /\ jb.ret = "Err" =>
              /\ Last(jb.items).tag = "Err"
              /\ Last(jb.items).blocks = <<>>
        /\ jb.ret = "Ok" =>
              /\ ~CallFails(jb.log, fault)
              /\ Last(jb.items).tag = "Ok"
              /\ Last(jb.items).blocks = Calls(jb.log, "execute")
              /\ Last(jb.items).blocks = Calls(jb.log, "fetch")
              /\ Len(Last(jb.items).results) = Len(Calls(jb.log, "execute"))
              /\ Last(jb.items).bundle.post = history_by_block_number(Last(Calls(jb.log, "execute")))

\* A batch failed at the execution of its third block or later: two blocks
\* had executed and none of them is in any yielded item.
C12_Witness ==
    LET jb == job[1] IN
    /\ jb.kind = "multi" /\ jb.ret = "Err" /\ CallFails(jb.log, fault)
    /\ fault.kind = "execution"
    /\ Len(Calls(jb.log, "execute")) >= 3
    /\ YieldedBlocks(jb.items) = <<>>

\* The blocks the items i..k of a history yielded.
BlocksOf(items, i, k) ==
    {n \in BlockNumbers : \E x \in i..k : \E y \in 1..Len(items[x].blocks) : items[x].blocks[y] = n}

\* C13: converting a BackfillJob into a SingleBlockBackfillJob, before any
\* pull or after some, gives a job whose range is the multi-block job's
\* remaining range and whose evm_config, provider and stream_parallelism are
\* the original's; the conversion executes nothing and yields nothing; and the
\* converted job never yields a block that the original had yielded.
C13_ConversionCarriesTheRest ==
    [][LET a == job[1] b == job'[1] IN
       /\ (a.kind = "multi" /\ b.kind = "single") =>
             /\ b.range = a.range
             /\ b.evm_config = a.evm_config
             /\ b.provider = a.provider
             /\ b.stream_parallelism = a.stream_parallelism
             /\ b.items = a.items
             /\ b.log = <<>>
       /\ b.kind = "single" =>
             BlocksOf(b.items, 1, b.converted)
                \cap BlocksOf(b.items, b.converted + 1, Len(b.items)) = {}]_vars

\* The i-th segments of the two runs, as far as both have got, cover the same
\* blocks, and runs that have ended yielded the same number of segments.
SameBoundaries ==
    /\ \A i \in 1..Len(job[1].items) :
          i <= Len(job[2].items) => job[1].items[i].blocks = job[2].items[i].blocks
    /\ (job[1].ret = "None" /\ job[2].ret = "None") => Len(job[1].items) = Len(job[2].items)

C15_SequenceIsFinite ==
    LET jb == job[1] IN
    jb.kind = "multi" =>
        /\ jb.ret # "panic"
        /\ Len(jb.items) <= Len(RangeSeq(jb.range0))
        /\ jb.ret = "None" => is_empty(jb.range)

\* The gas of the blocks bs together.
RECURSIVE GasOf(_)
GasOf(bs) == IF bs = <<>> THEN 0 ELSE gas_used(Head(bs)) + GasOf(Tail(bs))

\* The blocks a pull fetched (the fetch returned a block), in order.
Fetched(log, f) == SelectSeq(Calls(log, "fetch"), LAMBDA n : ~fetch_fails(f, n) /\ ~block_absent(f, n))

\* C16 (as claimed): when a batch fails at a block, the error item names the
\* block that failed and carries the batch's figures, the number of blocks
\* attempted and the cumulative gas, and the blocks already fetched in the
\* batch come with it.
C16_ErrorCarriesStatistics ==
    LET jb == job[1] IN
    (jb.kind = "multi" /\ BlockFailed(jb) /\ CallFails(jb.log, fault)) =>
        /\ Last(jb.items).at = FailedBlock(jb)
        /\ Last(jb.items).stats = Some(<<Len(Calls(jb.log, "fetch")), GasOf(Fetched(jb.log, fault))>>)
        /\ Last(jb.items).blocks = Fetched(jb.log, fault)

\* C16 (amended): when a batch fails, the item returned is the error of the
\* failing call and nothing else. For an absent block it is HeaderNotFound
\* with that block's number; it carries no figures of the batch (neither the
\* number of blocks attempted nor the cumulative gas), no blocks and no
\* results: what the batch had fetched and executed is dropped with the
\* error and is in no yielded item.
C16_ErrorIsTheCallsErrorAlone ==
    LET jb == job[1] IN
    (jb.kind = "multi" /\ jb.ret = "Err" /\ CallFails(jb.log, fault)) =>
        /\ Last(jb.items).tag = "Err"
        /\ Last(jb.items).cause = "HeaderNotFound" =>
              (block_absent(fault, FailedBlock(jb)) /\ Last(jb.items).at = FailedBlock(jb))
        /\ block_absent(fault, FailedBlock(jb)) /\ Last(jb.log)[1] = "fetch" =>
              Last(jb.items).cause = "HeaderNotFound"
        /\ Last(jb.items).stats = None
        /\ Last(jb.items).blocks = <<>>
        /\ Last(jb.items).results = <<>>
        /\ \A i \in 1..Len(Fetched(jb.log, fault)) :
              Fetched(jb.log, fault)[i] \notin BlocksOf(jb.items, 1, Len(jb.items))

\* A batch failed at the fetch of its third block, a provider error: two
\* blocks with gas had been fetched and executed.
C16_Witness ==
    LET jb == job[1] IN
    /\ jb.kind = "multi" /\ jb.ret = "Err" /\ CallFails(jb.log, fault)
    /\ fault.kind = "provider"
    /\ Len(Fetched(jb.log, fault)) = 2
    /\ GasOf(Fetched(jb.log, fault)) >= 3
    /\ Last(jb.items).cause = "ProviderError"

\* The synchronous iterator of the same kind over the range r, pulled k
\* times: the items it returns, the blocks it hands to the executor, what the
\* pull after them returns and the blocks that pull hands to the executor.
RECURSIVE SyncRun(_, _, _, _, _, _)
SyncRun(kind, r, t, f, oc, k) ==
    LET o == IF kind = "chain" THEN next(r, t, f, None, oc) ELSE single_next(r, f)
    IN IF k = 0 \/ o.ret \notin {"Ok", "Err"}
       THEN [items |-> <<>>, execs |-> <<>>, end |-> o.ret, then |-> Calls(o.log, "execute")]
       ELSE LET rest == SyncRun(kind, o.range, t, f, oc, k - 1)
            IN [rest EXCEPT !.items = <<o.item>> \o @, !.execs = Calls(o.log, "execute") \o @]

Kinds(events) == [i \in 1..Len(events) |-> events[i][1]]

\* The mode switches among the events, in order.
Switches(events) ==
    SelectSeq(Kinds(events), LAMBDA k : k \in {"BackfillStarted", "BackfillFinished"})

\* C18: every poll of the orchestrator polls at most one of the two adapters,
\* the one the sync mode selects; the sync mode is Live or Backfilling in
\* every state; and no block is subject both to live-tree insertion and to
\* backfill execution.
C18_OneAdapterPerPoll ==
    LET o == service.orchestrator v == service.value IN
    /\ o.mode \in {"Live", "Backfilling"}
    /\ Cardinality(o.polled) <= 1
    /\ o.polled \subseteq {"handler", "backfill_sync"}
    /\ (v.poll = "Ready" /\ v.event[1] \in {"Live", "InvalidBlock", "BackfillStarted"}) =>
          o.polled = {"handler"}
    /\ (v.poll = "Ready" /\ v.event[1] \in {"BackfillProgress", "BackfillFinished"}) =>
          o.polled = {"backfill_sync"}
    /\ service.inserted \cap service.backfilled = {}

\* After a backfill over blocks of its own the orchestrator is back in Live
\* and the last poll, of the engine handler alone, inserted a block.
C18_Witness ==
    /\ service.orchestrator.mode = "Live"
    /\ service.orchestrator.polled = {"handler"}
    /\ Cardinality(service.backfilled) >= 2
    /\ service.inserted # {}
    /\ service.value = Ready(<<"Live", service.orchestrator.head>>)
    /\ Switches(service.events) = <<"BackfillStarted", "BackfillFinished">>

\* C19: the orchestrator starts in Live; each gap signal of the live adapter
\* switches it to Backfilling, and it returns to Live only when pipeline sync
\* reports the target finished: the switches in the event stream alternate,
\* Live -> Backfilling first, one per gap signal, so that a run through one
\* gap shows one switch to Backfilling and then at most one back to Live; and
\* no live-processing event lies between a switch to Backfilling and the
\* switch back.
C19_SwitchesAlternate ==
    LET o == service.orchestrator ev == service.events sw == Switches(service.events) IN
    /\ sw = <<>> => o.mode = "Live"
    /\ \A i \in 1..Len(sw) :
          sw[i] = IF i % 2 = 1 THEN "BackfillStarted" ELSE "BackfillFinished"
    /\ o.mode = "Backfilling" <=> Len(sw) % 2 = 1
    /\ Len(SelectSeq(sw, LAMBDA k : k = "BackfillStarted")) = service.gaps
    /\ service.gaps = 1 => Len(sw) <= 2
    /\ \A i \in 1..Len(ev) :
          ev[i][1] \in {"Live", "InvalidBlock"} => Len(Switches(SubSeq(ev, 1, i))) % 2 = 0
    /\ (service.value.poll = "Ready" /\ service.value.event[1] = "BackfillFinished") =>
          (o.mode = "Live" /\ o.head = service.value.event[2])

\* A run through one forced gap: live events, the switch to Backfilling,
\* backfill progress, the switch back, and live events again.
C19_Witness ==
    /\ service.gaps = 1
    /\ Kinds(service.events) =
          <<"Live", "BackfillStarted", "BackfillProgress", "BackfillFinished", "Live">>
    /\ service.orchestrator.mode = "Live"

\* The errors among the events of a stream, in order.
Errors(events) == SelectSeq(Kinds(events), LAMBDA k : k \in {"InvalidBlock", "FatalError"})

\* C20: the orchestrator never suppresses an adapter error. Every error the
\* polled adapter reports is an item of the event stream, in order; a block
\* the tree rejected is reported as an event and the handler stays usable;
\* and once the active adapter had a fatal error, a poll polls no adapter,
\* emits nothing and leaves the sync mode as it is.
C20_ErrorsAreRelayed ==
    [][LET o == service.orchestrator o2 == service'.orchestrator IN
       /\ Errors(service'.events) = service'.reported
       /\ "FatalError" \notin {service'.reported[i] : i \in 1..Len(service'.reported)} =>
             (o2.handler = "usable" /\ o2.backfill_sync = "usable")
       /\ o[active(o)] = "fatal" =>
             /\ o2.polled = {}
             /\ o2.mode = o.mode
             /\ service'.events = service.events
             /\ service'.value = Closed]_vars

\* The tree rejected a block, live processing went on, then the handler
\* failed for good and the next poll found the stream closed.
C20_Witness ==
    /\ Kinds(service.events) = <<"InvalidBlock", "Live", "FatalError">>
    /\ service.reported = <<"InvalidBlock", "FatalError">>
    /\ service.value = Closed
    /\ service.orchestrator.polled = {}

(**************************** auth module claims ****************************)
\* The names of other that are installed in callbacks.
Conflicts(callbacks, other) == DOMAIN callbacks \cap DOMAIN other

\* callbacks and now bind every name outside names to the same callback.
SameOutside(callbacks, now, names) ==
    /\ DOMAIN callbacks \ names = DOMAIN now \ names
    /\ \A n \in DOMAIN callbacks \ names : now[n] = callbacks[n]

\* C21: merge_auth_methods fails when a name of the given set is installed
\* already and then leaves the installed set as it was; otherwise it installs
\* every given method, keeps every installed one and returns Ok(true).
C21_MergeIsAllOrNothing ==
    auth.op = "merge_auth_methods" =>
      LET installed == auth.before.inner
          other == auth.arg.other
          now == auth.module.inner
      IN IF Conflicts(installed, other) # {}
         THEN /\ ~is_ok(auth.ret)
              /\ now = installed
         ELSE /\ auth.ret = Ok(TRUE)
              /\ DOMAIN now = DOMAIN installed \cup DOMAIN other
              /\ \A n \in DOMAIN other : now[n] = other[n]
              /\ \A n \in DOMAIN installed : now[n] = installed[n]

\* A merge failed on a set that has an installed name and a new name.
C21_Witness ==
    /\ auth.op = "merge_auth_methods"
    /\ Conflicts(auth.before.inner, auth.arg.other) # {}
    /\ DOMAIN auth.arg.other \ DOMAIN auth.before.inner # {}
    /\ ~is_ok(auth.ret)
    /\ auth.module = auth.before


\* The names of a list.
Names(methods) == {methods[i] : i \in DOMAIN methods}

\* C22: remove_auth_method returns true exactly when the name was installed;
\* afterwards the name is not installed and every other method is as it was;
\* removing the same name again returns false. remove_auth_methods removes
\* each name of its list and passes over the names that are absent.
C22_RemoveReportsWhatItRemoved ==
    [][LET installed == auth.module.inner
           now == auth'.module.inner
       IN /\ auth'.op = "remove_auth_method" =>
               /\ auth'.ret = Bool(auth'.arg.method_name \in DOMAIN installed)
               /\ auth'.arg.method_name \notin DOMAIN now
               /\ SameOutside(installed, now, {auth'.arg.method_name})
               /\ (auth.op = "remove_auth_method" /\ auth.arg = auth'.arg) => auth'.ret = Bool(FALSE)
          /\ auth'.op = "remove_auth_methods" =>
               /\ DOMAIN now = DOMAIN installed \ Names(auth'.arg.methods)
               /\ SameOutside(installed, now, Names(auth'.arg.methods))
      ]_vars

\* One of several installed methods was removed, and the call said so.
C22_Witness ==
    /\ auth.op = "remove_auth_method"
    /\ auth.ret = Bool(TRUE)
    /\ auth.arg.method_name \in DOMAIN auth.before.inner
    /\ auth.arg.method_name \notin DOMAIN auth.module.inner
    /\ DOMAIN auth.module.inner # {}

\* C23: replace_auth_methods returns Ok(true) for any installed and any given
\* set; afterwards every given name is bound to the given callback, every
\* installed method whose name is not given is as it was, and replacing with
\* the same set again changes nothing.
C23_ReplaceNeverConflicts ==
    [][auth'.op = "replace_auth_methods" =>
         LET installed == auth.module.inner
             other == auth'.arg.other
             now == auth'.module.inner
         IN /\ auth'.ret = Ok(TRUE)
            /\ DOMAIN other \subseteq DOMAIN now
            /\ \A n \in DOMAIN other : now[n] = other[n]
            /\ SameOutside(installed, now, DOMAIN other)
            /\ (auth.op = "replace_auth_methods" /\ auth.arg = auth'.arg) => now = installed
      ]_vars

\* A replacement overrode the callback of an installed name, installed a new
\* name and left a third method alone.
C23_Witness ==
    /\ auth.op = "replace_auth_methods"
    /\ auth.ret = Ok(TRUE)
    /\ \E n \in Conflicts(auth.before.inner, auth.arg.other) :
         /\ auth.before.inner[n] # auth.arg.other[n]
         /\ auth.module.inner[n] = auth.arg.other[n]
    /\ DOMAIN auth.arg.other \ DOMAIN auth.before.inner # {}
    /\ \E n \in DOMAIN auth.before.inner \ DOMAIN auth.arg.other :
         auth.module.inner[n] = auth.before.inner[n]

(****************************** batch claims ********************************)
\* The state changes of the blocks bs together (the executor's size hint).
RECURSIVE ChangesOf(_)
ChangesOf(bs) == IF bs = <<>> THEN 0 ELSE changes(Head(bs)) + ChangesOf(Tail(bs))

\* A threshold of t trips after block n of a batch that began at block f,
\* measured over the blocks f..n alone, on the wall clock `clock`.
TripsAfter(t, f, n, clock) ==
    LET bs == Consecutive(f, n - f + 1)
    IN is_end_of_batch(t, n - f + 1, ChangesOf(bs), GasOf(bs), elapsed(clock, n))

\* The last pull of the job yielded a segment.
YieldedSegment(jb) == jb.kind = "multi" /\ jb.ret = "Ok"

\* C24: a batch ends at the first block at which a threshold trips, or at the
\* end of the range: for the segment [f, l] a pull yielded there is a course
\* of the wall clock on which no threshold tripped after any of f..l-1 and
\* one tripped after l unless l is the range end, the tested values being
\* the block count, the size, the gas and the time of that batch alone.
C24_BatchEndsAtFirstTrip ==
    \A j \in JobIds :
      YieldedSegment(job[j]) =>
        LET blocks == Last(job[j].items).blocks
            f == Head(blocks)
            l == Last(blocks)
            t == job[j].thresholds
        IN \E clock \in Clocks(job[j].before, t) :
              /\ \A n \in f..(l - 1) : ~TripsAfter(t, f, n, clock)
              /\ TripsAfter(t, f, l, clock) \/ l = job[j].before.end

\* A batch that was not the first of its range yielded two blocks and ended
\* before the range did.
C24_Witness ==
    /\ YieldedSegment(job[1])
    /\ Len(job[1].items) >= 2
    /\ Len(Last(job[1].items).blocks) = 2
    /\ Last(Last(job[1].items).blocks) < job[1].before.end
    /\ job[1].before.start > job[1].range0.start

\* C25: within one job the blocks are executed in ascending consecutive
\* order: the blocks a pull hands to the executor are range.start,
\* range.start + 1, ... with no gap, a block after the one that failed is
\* never executed, and the blocks of the yielded segments, batch after
\* batch, are consecutive too.
C25_BlocksExecuteInAscendingOrder ==
    \A j \in JobIds :
      (job[j].kind = "multi" /\ job[j].ret \in {"Ok", "Err"}) =>
        LET executed == Calls(job[j].log, "execute")
            yielded == YieldedBlocks(job[j].items)
        IN /\ executed = Consecutive(job[j].before.start, Len(executed))
           /\ (job[j].ret = "Err" /\ executed # <<>>) =>
                \A i \in 1..(Len(executed) - 1) : ~execution_fails(fault, executed[i])
           /\ yielded # <<>> => yielded = Consecutive(Head(yielded), Len(yielded))

\* The block whose state a job starting at block n is to run on: n - 1, and
\* block 0 for n = 0, which has no block before it.
ParentOf(n) == IF n = 0 THEN 0 ELSE n - 1

\* The results of the blocks bs executed one after the other on one executor
\* that started on the state st.
RECURSIVE BatchResults(_, _)
BatchResults(st, bs) ==
    IF bs = <<>> THEN <<>>
    ELSE LET out == execute_one(st, Head(bs))
         IN <<out.receipt>> \o BatchResults(out.post, Tail(bs))

\* The pull of a multi-block job made calls: it returned a segment or an
\* error, or it panicked.
Pulled(jb) == jb.kind = "multi" /\ jb.ret \in {"Ok", "Err", "panic"}

\* What every batch does with the snapshot it requested as of block `at`.
OneSnapshot(jb, at) ==
    /\ Calls(jb.log, "snapshot") = <<at>>
    /\ Head(jb.log) = <<"snapshot", at>>
    /\ jb.ret = "Ok" =>
         /\ Last(jb.items).bundle.pre = history_by_block_number(at)
         /\ Last(jb.items).results =
              BatchResults(history_by_block_number(at), Last(jb.items).blocks)
    /\ snapshot_fails(fault, at) =>
         /\ jb.ret = "Err"
         /\ Last(jb.items).cause = "ProviderError"
         /\ Len(jb.log) = 1
         /\ jb.range = jb.before

\* C26 (as claimed): each batch requests exactly one state snapshot, as of
\* block range.start - 1, before any block is fetched or executed, and all
\* its blocks execute on that one executor; if the request fails the pull
\* returns the error, no block is fetched or executed and the range is as it
\* was.
C26_OneSnapshotAtStartMinusOne ==
    \A j \in JobIds : Pulled(job[j]) => OneSnapshot(job[j], job[j].before.start - 1)

\* C26 (amended): the same, the snapshot being as of range.start - 1 for a
\* batch that starts above block 0 and as of block 0 for one that starts at
\* block 0.
C26_OneSnapshotAtParent ==
    \A j \in JobIds : Pulled(job[j]) => OneSnapshot(job[j], ParentOf(job[j].before.start))

\* A batch that started at block 0 yielded two blocks or more on the
\* snapshot as of block 0.
C26_Witness ==
    /\ YieldedSegment(job[1])
    /\ job[1].before.start = 0
    /\ Len(Last(job[1].items).blocks) >= 2
    /\ Head(job[1].log) = <<"snapshot", 0>>

\* C27: the outcome of every yielded segment is anchored at the segment's
\* first block, which is the range.start the pull found, and holds one result
\* per block in the order of the blocks: as many results as blocks, and as
\* many blocks as last block - first block + 1.
C27_OutcomeMatchesBlocks ==
    \A j \in JobIds :
      job[j].kind = "multi" =>
        /\ \A i \in 1..Len(job[j].items) :
             LET item == job[j].items[i] IN
             item.tag = "Ok" =>
               /\ item.first = Head(item.blocks)
               /\ Len(item.results) = Len(item.blocks)
               /\ Len(item.blocks) = Last(item.blocks) - Head(item.blocks) + 1
               /\ \A k \in 1..Len(item.blocks) : item.results[k][1] = item.blocks[k]
        /\ job[j].ret = "Ok" => Last(job[j].items).first = job[j].before.start

\* A batch that was not the first of its range yielded two blocks or more.
C27_Witness ==
    /\ YieldedSegment(job[1])
    /\ Len(job[1].items) >= 2
    /\ Len(Last(job[1].items).blocks) >= 2
    /\ Last(job[1].items).first = job[1].before.start
    /\ Last(job[1].items).first > 0

(*************************** single-block claims ****************************)
\* The items the single-block job itself yielded.
OwnItems(jb) == SubSeq(jb.items, jb.converted + 1, Len(jb.items))

\* The state as of block p; there is none below block 0.
StateAsOf(p) == IF p < 0 THEN -1 ELSE history_by_block_number(p)

\* A single-block job over [s, e] under the reading Parent of "the state the
\* block runs on": at most e - s + 1 items, exactly that many once None is
\* returned and no block left after that many; the i-th pull fetches block
\* s + i - 1, then requests the snapshot as of Parent(s + i - 1), then
\* executes that block, and stops at the call that fails; an Ok item holds
\* that one block and its result on that snapshot alone.
SinglePulls(jb, Parent(_)) ==
    LET own == OwnItems(jb)
        s == jb.built_over.start
        count == Len(RangeSeq(jb.built_over))
        n == s + Len(own) - 1
        calls == <<<<"fetch", n>>, <<"snapshot", Parent(n)>>, <<"execute", n>>>>
    IN /\ Len(own) <= count
       /\ jb.ret = "None" => Len(own) = count
       /\ (Len(own) = count /\ jb.ret # "new") => is_empty(jb.range)
       /\ jb.ret \in {"Ok", "Err"} =>
            /\ jb.log # <<>>
            /\ IsPrefix(jb.log, calls)
            /\ jb.ret = "Ok" => jb.log = calls
            /\ jb.ret = "Err" => CallFails(jb.log, fault) \/ fault = NoFault
       /\ \A i \in 1..Len(own) :
            own[i].tag = "Ok" =>
              LET b == s + i - 1
                  pre == StateAsOf(Parent(b))
              IN /\ own[i].blocks = <<b>>
                 /\ own[i].bundle.pre = pre
                 /\ pre >= 0 => own[i].results = <<execute_one(pre, b).receipt>>

MinusOne(n) == n - 1

\* C28 (as claimed): a single-block job over [s, e] yields exactly e - s + 1
\* items and then None, one per block number in ascending order, Ok or Err;
\* the i-th pull fetches block s + i - 1, then requests a fresh snapshot as
\* of that block's number minus one and executes only that block on a new
\* executor; an Ok item's block has the pulled number.
C28_OneItemPerBlockOnStateMinusOne ==
    \A j \in JobIds : job[j].kind = "single" => SinglePulls(job[j], MinusOne)

\* C28 (amended): the same, the snapshot being as of the block's number minus
\* one for a block above block 0 and as of block 0 for block 0.
C28_OneItemPerBlockOnParentState ==
    \A j \in JobIds : job[j].kind = "single" => SinglePulls(job[j], ParentOf)

\* A single-block job over two blocks or more, the first of them block 0,
\* returned None after one item per block, an error among them.
C28_Witness ==
    /\ job[1].kind = "single"
    /\ job[1].ret = "None"
    /\ job[1].built_over.start = 0
    /\ Len(OwnItems(job[1])) = job[1].built_over.end + 1
    /\ Len(OwnItems(job[1])) >= 2
    /\ Errs(OwnItems(job[1])) >= 1
    /\ OwnItems(job[1])[1].tag = "Ok"

(***************************** numeric claims *******************************)
\* C29: advancing the range past the last committed block never overflows:
\* the pull that executes the last block of the range, the block u64::MAX
\* included, returns a segment and leaves the range empty, and the pull after
\* it returns None; no pull panics and the range never moves back.
C29_AdvanceNeverOverflows ==
    \A j \in JobIds :
      job[j].kind = "multi" =>
        /\ job[j].ret # "panic"
        /\ job[j].ret = "Ok" =>
             /\ job[j].range.start > job[j].before.start
             /\ Last(Last(job[j].items).blocks) = job[j].before.end => is_empty(job[j].range)
        /\ job[j].ret = "None" => YieldedBlocks(job[j].items) = RangeSeq(job[j].range0)

\* The block the pull began with: the range.start it found.
PulledFrom(jb) == jb.before.start

\* C30: the request for the parent state does not underflow at block 0: a
\* pull of either job that begins with block 0 requests the snapshot as of
\* block 0 and runs block 0 on the state as of block 0; a pull that begins
\* with a block n >= 1 requests it as of n - 1; no pull panics over it.
C30_ParentRequestSaturates ==
    \A j \in JobIds :
      (job[j].kind \in {"multi", "single"} /\ job[j].ret \in {"Ok", "Err", "panic"}) =>
        LET n == PulledFrom(job[j])
            asked == Calls(job[j].log, "snapshot")
        IN /\ job[j].kind = "multi" => Len(asked) = 1
           /\ job[j].ret = "Ok" => Len(asked) = 1
           /\ \A i \in 1..Len(asked) : asked[i] = (IF n = 0 THEN 0 ELSE n - 1)
           /\ (job[j].ret = "Ok" /\ n = 0) =>
                /\ Head(Last(job[j].items).blocks) = 0
                /\ Last(job[j].items).bundle.pre = history_by_block_number(0)
           /\ job[j].ret = "panic" => job[j].panic = "attempt to add with overflow"

\* A multi-block and a single-block job over a range that begins at block 0
\* each made their first pull, on the snapshot as of block 0.
C30_Witness ==
    /\ job[1].kind = "multi" /\ job[1].ret = "Ok" /\ PulledFrom(job[1]) = 0
    /\ Head(job[1].log) = <<"snapshot", 0>>
    /\ job[2].kind = "single" /\ job[2].ret = "Ok" /\ PulledFrom(job[2]) = 0
    /\ job[2].log = <<<<"fetch", 0>>, <<"snapshot", 0>>, <<"execute", 0>>>>

(****************************** frame claims ********************************)
\* What a step leaves of the multi-block job j and how it moves range.start.
JobFrame(j) ==
    (job[j].kind = "multi" /\ job'[j].kind = "multi") =>
      /\ job'[j].range.end = job[j].range.end
      /\ job'[j].thresholds = job[j].thresholds
      /\ job'[j].prune_modes = job[j].prune_modes
      /\ job'[j].evm_config = job[j].evm_config
      /\ job'[j].provider = job[j].provider
      /\ job'[j].stream_parallelism = job[j].stream_parallelism
      /\ job'[j].range.start >= job[j].range.start
      /\ job'[j].range.start > job[j].range.start => job'[j].ret = "Ok"
      /\ (job'[j] # job[j] /\ job'[j].ret = "Ok") =>
           job'[j].range.start = job[j].range.start + Len(Last(job'[j].items).blocks)

\* C31: no operation of a BackfillJob changes range.end, the thresholds, the
\* prune modes, the executor configuration, the provider or the stream
\* parallelism; range.start never decreases and increases only in a pull
\* that returns an Ok segment, by the number of blocks of that segment.
C31_OnlyRangeStartMoves ==
    [][\A j \in JobIds : JobFrame(j)]_vars

(***************************** service claims *******************************)
\* C32: the EngineService is a transparent wrapper of the orchestrator: a
\* poll of the service polls the orchestrator exactly once and returns the
\* value it returned, an item, Pending or the end of the stream, so the
\* events seen from the service are the orchestrator's events, none added,
\* dropped or moved; before the first poll the orchestrator is as it was
\* constructed, neither adapter polled.
C32_ServiceIsTransparent ==
    /\ service.returned = <<>> =>
         /\ service.orchestrator = ChainOrchestrator_new("usable", "usable")
         /\ service.orchestrator.polled = {}
         /\ service.events = <<>>
    /\ service.returned # <<>> =>
         /\ Len(service.returned) = 1
         /\ service.value = service.returned[1]
    /\ service.events = service.emitted

\* The service passed on events of both adapters, a progress event of the
\* pipeline among them, and then a Pending.
C32_Witness ==
    /\ Len(service.events) >= 3
    /\ \E i \in 1..Len(service.events) : service.events[i][1] = "BackfillProgress"
    /\ \E i \in 1..Len(service.events) : service.events[i][1] = "Live"
    /\ service.returned = <<Pending>>
    /\ service.value = Pending
    /\ service.emitted = service.events

(*************************** auth server claims *****************************)
\* The handle a successful start returned, in a sequence: empty before that.
Started ==
    IF is_some(server.started) /\ is_ok(unwrap(server.started))
    THEN <<unwrap(server.started).Ok>> ELSE <<>>

\* C33: after start succeeded the handle is consistent about IPC: ipc_handle()
\* is Some exactly when the config had an IPC server config, and when an IPC
\* server was started ipc_endpoint() is Some(the endpoint the server was built
\* with), the configured one or else the default, and ipc_client(), once
\* called, returned a client connected to it.
C33_HandleIsConsistentAboutIpc ==
    \A h \in {Started[i] : i \in DOMAIN Started} :
       LET config == unwrap(server.config)
       IN /\ is_some(ipc_handle(h)) <=> is_some(config.ipc_server_config)
          /\ is_some(ipc_handle(h)) =>
               /\ unwrap(ipc_handle(h)).endpoint =
                    IF is_some(config.ipc_endpoint) THEN unwrap(config.ipc_endpoint)
                    ELSE DEFAULT_ENGINE_API_IPC_ENDPOINT
               /\ ipc_endpoint(h) = Some(unwrap(ipc_handle(h)).endpoint)
               /\ is_some(server.client) =>
                    unwrap(server.client) =
                      [returned |-> Some([connected_to |-> unwrap(ipc_handle(h)).endpoint])]

====
